---------------------------- MODULE Spec2Model ----------------------------
(***************************************************************************)
(* The time-windowed trip-traffic aggregation of the bike-share map page   *)
(* (src/unnamed/part_001): trips are bucketed by minute of day into two    *)
(* 1440-slot arrays, filterByMinute answers circular window queries over   *)
(* them and computeStationTraffic rolls the result up per station.         *)
(*                                                                         *)
(* JavaScript arrays are modelled as sequences: the array element a[i] is  *)
(* the sequence element a[i + 1].  A JavaScript number that may be NaN is  *)
(* a record, Num(n) or NaN.  A plain object is a function from its field   *)
(* names to their values (a TLA+ record), so that object spread is         *)
(* function override.                                                      *)
(***************************************************************************)
EXTENDS Integers, Sequences, FiniteSets

VARIABLES
    pc,                 \* where the map "load" handler stands
    stations,           \* let stations = []
    parsed,             \* rows d3.csv has passed through the row callback
    trips,              \* let trips = [] of the load handler
    departuresByMinute, \* 1440 buckets of trips, by start minute
    arrivalsByMinute,   \* 1440 buckets of trips, by end minute
    timeFilter,         \* let timeFilter = -1
    filteredStations,   \* the data bound to the circles
    radiusScale,        \* the d3.scaleSqrt: its domain and range
    call                \* the last direct call of a helper of the page

vars == <<pc, stations, parsed, trips, departuresByMinute, arrivalsByMinute,
          timeFilter, filteredStations, radiusScale, call>>

---------------------------------------------------------------------------
(* Program constants and the bounds of the model *)

MINUTES_PER_DAY == 1440

\* the longest trip stream and the longest station list of Spec
MaxTrips == 2
MaxStations == 2

\* the most departures and the most arrivals of the station of SpecFlow
MaxCount == 7

---------------------------------------------------------------------------
(* JavaScript numbers, dates and arrays *)

NaN == [nan |-> TRUE]
Num(n) == [nan |-> FALSE, val |-> n]

\* Number.isFinite
isFinite(x) == ~x.nan

\* x * 60 + y on numbers that may be NaN
TimesSixtyPlus(x, y) == IF x.nan \/ y.nan THEN NaN ELSE Num(x.val * 60 + y.val)

\* The % operator: the result takes the sign of the dividend.
JsRem(a, n) == IF a >= 0 THEN a % n ELSE 0 - ((0 - a) % n)

Min2(a, b) == IF a < b THEN a ELSE b
Max2(a, b) == IF a > b THEN a ELSE b

\* Array.prototype.slice's relative index: negative counts from the end.
RelIndex(i, len) == IF i < 0 THEN Max2(len + i, 0) ELSE Min2(i, len)

\* slice with its end index taken as inclusive
sliceInclusive(arr, start, end) ==
    LET k == RelIndex(start, Len(arr))
        final == RelIndex(end, Len(arr))
    IN  IF k <= final /\ final < Len(arr) THEN SubSeq(arr, k + 1, final + 1)
        ELSE IF k < final THEN SubSeq(arr, k + 1, final)
        ELSE <<>>

\* arr.slice(start, end)
slice(arr, start, end) ==
    LET k == RelIndex(start, Len(arr))
        final == RelIndex(end, Len(arr))
    IN  IF k < final THEN SubSeq(arr, k + 1, final) ELSE <<>>

\* arr.slice(start)
sliceFrom(arr, start) == slice(arr, start, Len(arr))

\* arr.flat(): the concatenation of the elements of an array of arrays.
\* Empty elements add nothing, so the non-empty ones are concatenated.
RECURSIVE concatAll(_)
concatAll(arrs) ==
    IF Len(arrs) = 0 THEN <<>>
    ELSE IF Len(arrs) = 1 THEN arrs[1]
    ELSE LET mid == Len(arrs) \div 2
         IN  concatAll(SubSeq(arrs, 1, mid))
                \o concatAll(SubSeq(arrs, mid + 1, Len(arrs)))

NonEmpty(arr) == arr # <<>>

flat(arrs) == concatAll(SelectSeq(arrs, NonEmpty))

\* A timestamp text is modelled by its hour and minute fields, <<hh, mm>>,
\* or <<>> for a text that is no timestamp.
\* new Date(text): a valid Date or an Invalid Date.
newDate(text) ==
    IF Len(text) = 2 /\ text[1] \in 0..23 /\ text[2] \in 0..59
    THEN [valid |-> TRUE, hours |-> text[1], minutes |-> text[2]]
    ELSE [valid |-> FALSE]

getHours(date) == IF date.valid THEN Num(date.hours) ELSE NaN
getMinutes(date) == IF date.valid THEN Num(date.minutes) ELSE NaN

\* parseFloat on the texts the station feed carries
parseFloat(text) ==
    CASE text = "42" -> Num(42)
      [] text = "-71" -> Num(0 - 71)
      [] OTHER -> NaN

\* { ...obj, ...fields }
Spread(obj, fields) ==
    [k \in DOMAIN obj \cup DOMAIN fields |->
        IF k \in DOMAIN fields THEN fields[k] ELSE obj[k]]

---------------------------------------------------------------------------
(* The helpers of the page *)

minutesSinceMidnight(date) == TimesSixtyPlus(getHours(date), getMinutes(date))

\* filterByMinute without the test for the sentinel
filterByMinuteNoSentinel(tripsByMinute, minute) ==
    LET n == Len(tripsByMinute)
        minMinute == JsRem(minute - 60 + n, n)
        maxMinute == JsRem(minute + 60, n)
    IN  IF minMinute > maxMinute
        THEN flat(sliceFrom(tripsByMinute, minMinute)
                  \o slice(tripsByMinute, 0, maxMinute))
        ELSE flat(slice(tripsByMinute, minMinute, maxMinute))

\* filterByMinute without the branch for a window across midnight
filterByMinuteNoWrap(tripsByMinute, minute) ==
    IF minute = -1 THEN flat(tripsByMinute)
    ELSE LET n == Len(tripsByMinute)
             minMinute == JsRem(minute - 60 + n, n)
             maxMinute == JsRem(minute + 60, n)
         IN  flat(slice(tripsByMinute, minMinute, maxMinute))

\* filterByMinute with the slot maxMinute taken into the window
filterByMinuteClosed(tripsByMinute, minute) ==
    IF minute = -1 THEN flat(tripsByMinute)
    ELSE LET n == Len(tripsByMinute)
             minMinute == JsRem(minute - 60 + n, n)
             maxMinute == JsRem(minute + 60, n)
         IN  IF minMinute > maxMinute
             THEN flat(sliceFrom(tripsByMinute, minMinute)
                       \o slice(tripsByMinute, 0, maxMinute + 1))
             ELSE flat(slice(tripsByMinute, minMinute, maxMinute + 1))

\* filterByMinute with the comparison of the two bounds inverted
filterByMinuteInverted(tripsByMinute, minute) ==
    IF minute = -1 THEN flat(tripsByMinute)
    ELSE LET n == Len(tripsByMinute)
             minMinute == JsRem(minute - 60 + n, n)
             maxMinute == JsRem(minute + 60, n)
         IN  IF minMinute < maxMinute
             THEN flat(sliceFrom(tripsByMinute, minMinute)
                       \o slice(tripsByMinute, 0, maxMinute))
             ELSE flat(slice(tripsByMinute, minMinute, maxMinute))

filterByMinute(tripsByMinute, minute) ==
    IF minute = -1 THEN flat(tripsByMinute)
    ELSE LET n == Len(tripsByMinute)
             minMinute == JsRem(minute - 60 + n, n)
             maxMinute == JsRem(minute + 60, n)
         IN  IF minMinute > maxMinute
             THEN flat(sliceFrom(tripsByMinute, minMinute)
                       \o slice(tripsByMinute, 0, maxMinute))
             ELSE flat(slice(tripsByMinute, minMinute, maxMinute))

\* rollup that marks each key present instead of counting its trips
rollupPresence(values, key) ==
    [id \in {values[i][key] : i \in DOMAIN values} |-> 1]

\* d3.rollup(values, v => v.length, d => d[key]): the count of each key
rollup(values, key) ==
    [id \in {values[i][key] : i \in DOMAIN values} |->
        Cardinality({i \in DOMAIN values : values[i][key] = id})]

\* a lookup whose default for a missing key is 1
getOrOne(map, id) == IF id \in DOMAIN map THEN map[id] ELSE 1

\* map.get(id) ?? 0
getOrZero(map, id) == IF id \in DOMAIN map THEN map[id] ELSE 0

\* the map callback adding the new counts to the counts the station carries
ComposeStationAccumulating(station, departures, arrivals) ==
    LET id == station.short_name
        dep == getOrZero(departures, id)
                 + (IF "departures" \in DOMAIN station
                    THEN station.departures ELSE 0)
        arr == getOrZero(arrivals, id)
                 + (IF "arrivals" \in DOMAIN station
                    THEN station.arrivals ELSE 0)
    IN  Spread(station, [departures |-> dep, arrivals |-> arr,
                         totalTraffic |-> dep + arr])

\* the map callback taking the departures alone as the total
ComposeStationDeparturesOnly(station, departures, arrivals) ==
    LET id == station.short_name
        dep == getOrZero(departures, id)
        arr == getOrZero(arrivals, id)
    IN  Spread(station, [departures |-> dep, arrivals |-> arr,
                         totalTraffic |-> dep])

ComposeStation(station, departures, arrivals) ==
    LET id == station.short_name
        dep == getOrZero(departures, id)
        arr == getOrZero(arrivals, id)
    IN  Spread(station, [departures |-> dep, arrivals |-> arr,
                         totalTraffic |-> dep + arr])

\* computeStationTraffic taking the arrivals from the window of the start
\* minutes
computeStationTrafficOnStartOnly(depBuckets, arrBuckets, baseStations, filter) ==
    LET departureTrips == filterByMinute(depBuckets, filter)
        arrivalTrips == filterByMinute(depBuckets, filter)
        departures == rollup(departureTrips, "start_station_id")
        arrivals == rollup(arrivalTrips, "end_station_id")
    IN  [i \in 1..Len(baseStations) |->
            ComposeStation(baseStations[i], departures, arrivals)]

computeStationTrafficOn(depBuckets, arrBuckets, baseStations, filter) ==
    LET departureTrips == filterByMinute(depBuckets, filter)
        arrivalTrips == filterByMinute(arrBuckets, filter)
        departures == rollup(departureTrips, "start_station_id")
        arrivals == rollup(arrivalTrips, "end_station_id")
    IN  [i \in 1..Len(baseStations) |->
            ComposeStation(baseStations[i], departures, arrivals)]

\* computeStationTraffic that leaves out the stations without traffic
computeStationTrafficBusyOnly(baseStations, filter) ==
    LET busy(record) == record.totalTraffic > 0
    IN  SelectSeq(computeStationTrafficOn(departuresByMinute, arrivalsByMinute,
                                          baseStations, filter), busy)

\* computeStationTraffic reading the module-level timeFilter, as it would
\* if its second parameter did not shadow that name
computeStationTrafficOfGlobal(baseStations, filter) ==
    computeStationTrafficOn(departuresByMinute, arrivalsByMinute,
                            baseStations, timeFilter)

computeStationTraffic(baseStations, filter) ==
    computeStationTrafficOn(departuresByMinute, arrivalsByMinute,
                            baseStations, filter)

\* The count maps `departures` and `arrivals` computeStationTraffic rolls
\* up for a filter
departureCounts(filter) ==
    rollup(filterByMinute(departuresByMinute, filter), "start_station_id")

arrivalCounts(filter) ==
    rollup(filterByMinute(arrivalsByMinute, filter), "end_station_id")

\* The number x / y of a division of counts, y > 0, kept as the pair
Quotient(x, y) == [num |-> x, den |-> y]

\* The literal 0.5
Half == Quotient(1, 2)

\* the ratio taken as the share of arrivals
departureRatioOfArrivals(d) ==
    IF d.totalTraffic > 0 THEN Quotient(d.arrivals, d.totalTraffic) ELSE Half

\* const ratio = d.totalTraffic > 0 ? d.departures / d.totalTraffic : 0.5
departureRatio(d) ==
    IF d.totalTraffic > 0 THEN Quotient(d.departures, d.totalTraffic) ELSE Half

\* x <= y for two such numbers
LessOrEqual(x, y) == x.num * y.den <= y.num * x.den

\* d3.bisectRight(a, x) on a sorted array: the number of elements <= x
bisectRight(a, x) == Cardinality({i \in DOMAIN a : LessOrEqual(a[i], x)})

\* .range([0, 0.5, 1]) of stationFlow
stationFlowRange == <<Quotient(0, 1), Half, Quotient(1, 1)>>

\* The thresholds d3.scaleQuantize derives from .domain([0, 1]) and a range
\* of three values: 1/3 and 2/3
stationFlowThresholds ==
    [i \in 1..(Len(stationFlowRange) - 1) |->
        Quotient(i, Len(stationFlowRange))]

\* stationFlow with a ratio on a threshold put in the bin below it
stationFlowBisectLeft(ratio) ==
    stationFlowRange[
        Cardinality({i \in DOMAIN stationFlowThresholds :
                        ~LessOrEqual(ratio, stationFlowThresholds[i])}) + 1]

\* stationFlow(ratio): range[bisectRight(thresholds, ratio)]
stationFlow(ratio) ==
    stationFlowRange[bisectRight(stationFlowThresholds, ratio) + 1]

\* The sizing of updateScatterPlot: d3.max(filteredStations, d => d.totalTraffic) || 0
maxTotalTraffic(records) ==
    IF Len(records) = 0 THEN 0
    ELSE CHOOSE m \in {records[i].totalTraffic : i \in DOMAIN records} :
            \A i \in DOMAIN records : records[i].totalTraffic <= m

\* updateScatterPlot that never changes the range of the radius scale
updateScatterPlotFixedRange(baseStations, currentFilter) ==
    LET recomputed == computeStationTraffic(baseStations, currentFilter)
        maxTraffic == maxTotalTraffic(recomputed)
    IN  [filteredStations |-> recomputed,
         radiusScale |-> [domain |-> <<0, maxTraffic>>,
                          range |-> <<0, 20>>]]

\* updateScatterPlot(currentFilter), on the station list it reads: the records
\* bound to the circles and the radius scale it leaves
updateScatterPlot(baseStations, currentFilter) ==
    LET recomputed == computeStationTraffic(baseStations, currentFilter)
        maxTraffic == maxTotalTraffic(recomputed)
    IN  [filteredStations |-> recomputed,
         radiusScale |-> [domain |-> <<0, maxTraffic>>,
                          range |-> IF currentFilter = -1 THEN <<0, 20>>
                                    ELSE <<2, 30>>]]

\* trip.started_at = new Date(trip.started_at), and so for ended_at
withDates(row) ==
    Spread(row, [started_at |-> newDate(row.started_at),
                 ended_at |-> newDate(row.ended_at)])

\* The row callback of d3.csv: the trip object it returns and the buckets
\* after its pushes.
rowCallback(buckets, row) ==
    LET trip == withDates(row)
        startedMinutes == minutesSinceMidnight(trip.started_at)
        endedMinutes == minutesSinceMidnight(trip.ended_at)
        dep == IF isFinite(startedMinutes)
               THEN [buckets.departures EXCEPT
                        ![startedMinutes.val + 1] = Append(@, trip)]
               ELSE buckets.departures
        arr == IF isFinite(endedMinutes)
               THEN [buckets.arrivals EXCEPT
                        ![endedMinutes.val + 1] = Append(@, trip)]
               ELSE buckets.arrivals
    IN  [trip |-> trip, departures |-> dep, arrivals |-> arr]

\* Array.from({ length: MINUTES_PER_DAY }, () => [])
EmptyBuckets == [i \in 1..MINUTES_PER_DAY |-> <<>>]

\* The station list of the load handler: coordinates parsed, stations
\* without finite coordinates dropped.
normalizeStations(feed) ==
    LET parsedFeed == [i \in 1..Len(feed) |->
                          Spread(feed[i], [lat |-> parseFloat(feed[i].lat),
                                           lon |-> parseFloat(feed[i].lon)])]
        ok(s) == isFinite(s.lat) /\ isFinite(s.lon)
    IN  SelectSeq(parsedFeed, ok)

---------------------------------------------------------------------------
(* The inputs of the model *)

Stamp(hh, mm) == <<hh, mm>>
BadStamp == <<>>

Row(started, ended, from, to) ==
    [started_at |-> started, ended_at |-> ended,
     start_station_id |-> from, end_station_id |-> to]

\* The rows a trip file may carry: two midday trips, a trip across the
\* end of the window of midnight, and two rows with one unparseable
\* timestamp.
InputRows ==
    { Row(Stamp(11, 40), Stamp(11, 45), "A", "B"),
      Row(Stamp(11, 45), Stamp(11, 50), "B", "A"),
      Row(Stamp(0, 59), Stamp(1, 0), "A", "B"),
      Row(BadStamp, Stamp(11, 45), "A", "B"),
      Row(Stamp(11, 40), BadStamp, "B", "A") }

\* The entries a station feed may carry; C has no usable latitude.
StationFeed ==
    { [short_name |-> "A", lat |-> "42", lon |-> "-71"],
      [short_name |-> "B", lat |-> "42", lon |-> "-71"],
      [short_name |-> "C", lat |-> "", lon |-> "-71"] }

StationFeeds == UNION {[1..n -> StationFeed] : n \in 0..MaxStations}

\* The positions of the time slider: any time, and centre minutes
SliderValues == {-1, 0, 60, 700}

---------------------------------------------------------------------------
(* The page: the map "load" handler and the slider listener *)

NoScale == [domain |-> <<>>, range |-> <<>>]
NoCall == [kind |-> "none", minute |-> -1, returned |-> FALSE, result |-> <<>>]

Init ==
    /\ pc = "start"
    /\ stations = <<>>
    /\ parsed = <<>>
    /\ trips = <<>>
    /\ departuresByMinute = EmptyBuckets
    /\ arrivalsByMinute = EmptyBuckets
    /\ timeFilter = -1
    /\ filteredStations = <<>>
    /\ radiusScale = NoScale
    /\ call = NoCall

\* d3.json resolved: the station list is normalized and d3.csv is started.
StationsLoaded(feed) ==
    /\ pc = "start"
    /\ stations' = normalizeStations(feed)
    /\ pc' = "csv"
    /\ UNCHANGED <<parsed, trips, departuresByMinute, arrivalsByMinute,
                   timeFilter, filteredStations, radiusScale, call>>

\* d3.json rejected: the handler logs the error and returns.
StationsFailed ==
    /\ pc = "start"
    /\ pc' = "failed"
    /\ UNCHANGED <<stations, parsed, trips, departuresByMinute,
                   arrivalsByMinute, timeFilter, filteredStations,
                   radiusScale, call>>

\* d3.csv hands one more row of the file to the row callback.
\* the parse given up at the first row with an unparseable timestamp: the
\* rows after it are not indexed
TripRowStopAtBad(row) ==
    /\ pc = "csv"
    /\ Len(parsed) < MaxTrips
    /\ LET r == rowCallback([departures |-> departuresByMinute,
                             arrivals |-> arrivalsByMinute],
                            Spread(row, [ride_id |-> Len(parsed) + 1]))
           stopped == \E i \in DOMAIN parsed :
                         ~(parsed[i].started_at.valid
                           /\ parsed[i].ended_at.valid)
       IN  /\ parsed' = Append(parsed, r.trip)
           /\ departuresByMinute' =
                 IF stopped THEN departuresByMinute ELSE r.departures
           /\ arrivalsByMinute' =
                 IF stopped THEN arrivalsByMinute ELSE r.arrivals
    /\ UNCHANGED <<pc, stations, trips, timeFilter, filteredStations,
                   radiusScale, call>>

TripRow(row) ==
    /\ pc = "csv"
    /\ Len(parsed) < MaxTrips
    /\ LET r == rowCallback([departures |-> departuresByMinute,
                             arrivals |-> arrivalsByMinute],
                            Spread(row, [ride_id |-> Len(parsed) + 1]))
       IN  /\ parsed' = Append(parsed, r.trip)
           /\ departuresByMinute' = r.departures
           /\ arrivalsByMinute' = r.arrivals
    /\ UNCHANGED <<pc, stations, trips, timeFilter, filteredStations,
                   radiusScale, call>>

\* The handler after the trip file: stations get their any-time traffic,
\* the circles are created, the listener is registered and
\* updateTimeDisplay() runs once for the slider's position.
AfterTrips(sliderValue) ==
    /\ pc' = "ready"
    /\ stations' = computeStationTraffic(stations, -1)
    /\ timeFilter' = sliderValue
    /\ LET plot == updateScatterPlot(stations', timeFilter')
       IN  /\ filteredStations' = plot.filteredStations
           /\ radiusScale' = plot.radiusScale
    /\ UNCHANGED <<parsed, departuresByMinute, arrivalsByMinute, call>>

\* d3.csv resolved with the rows of the file.
TripsLoaded(sliderValue) ==
    /\ pc = "csv"
    /\ trips' = parsed
    /\ AfterTrips(sliderValue)

\* d3.csv rejected (before any row was parsed): the error is logged.
TripsFailed(sliderValue) ==
    /\ pc = "csv"
    /\ parsed = <<>>
    /\ trips' = <<>>
    /\ AfterTrips(sliderValue)

\* updateTimeDisplay with the window taken out of the buckets by splice
updateTimeDisplaySplicing(sliderValue) ==
    /\ pc = "ready"
    /\ timeFilter' = sliderValue
    /\ LET plot == updateScatterPlot(stations, timeFilter')
           minMinute == JsRem(sliderValue - 60 + MINUTES_PER_DAY,
                              MINUTES_PER_DAY)
       IN  /\ filteredStations' = plot.filteredStations
           /\ radiusScale' = plot.radiusScale
           /\ departuresByMinute' =
                 IF sliderValue = -1 THEN departuresByMinute
                 ELSE slice(departuresByMinute, 0, minMinute)
           /\ arrivalsByMinute' =
                 IF sliderValue = -1 THEN arrivalsByMinute
                 ELSE slice(arrivalsByMinute, 0, minMinute)
    /\ UNCHANGED <<pc, stations, parsed, trips, call>>

\* updateTimeDisplay with the aggregate assigned to the module-level list
updateTimeDisplayReassigning(sliderValue) ==
    /\ pc = "ready"
    /\ timeFilter' = sliderValue
    /\ LET plot == updateScatterPlot(stations, timeFilter')
       IN  /\ filteredStations' = plot.filteredStations
           /\ radiusScale' = plot.radiusScale
           /\ stations' = plot.filteredStations
    /\ UNCHANGED <<pc, parsed, trips, departuresByMinute,
                   arrivalsByMinute, call>>

\* updateTimeDisplay drawing the aggregate of the filter of the event before
updateTimeDisplayStale(sliderValue) ==
    /\ pc = "ready"
    /\ timeFilter' = sliderValue
    /\ LET plot == updateScatterPlot(stations, timeFilter)
       IN  /\ filteredStations' = plot.filteredStations
           /\ radiusScale' = plot.radiusScale
    /\ UNCHANGED <<pc, stations, parsed, trips, departuresByMinute,
                   arrivalsByMinute, call>>

\* updateTimeDisplay with the listener registered before the trip file is
\* awaited
updateTimeDisplayEarly(sliderValue) ==
    /\ pc \in {"csv", "ready"}
    /\ timeFilter' = sliderValue
    /\ LET plot == updateScatterPlot(stations, timeFilter')
       IN  /\ filteredStations' = plot.filteredStations
           /\ radiusScale' = plot.radiusScale
    /\ UNCHANGED <<pc, stations, parsed, trips, departuresByMinute,
                   arrivalsByMinute, call>>

\* An input event of the slider: updateTimeDisplay.
updateTimeDisplay(sliderValue) ==
    /\ pc = "ready"
    /\ timeFilter' = sliderValue
    /\ LET plot == updateScatterPlot(stations, timeFilter')
       IN  /\ filteredStations' = plot.filteredStations
           /\ radiusScale' = plot.radiusScale
    /\ UNCHANGED <<pc, stations, parsed, trips, departuresByMinute,
                   arrivalsByMinute, call>>

Next ==
    \/ \E feed \in StationFeeds : StationsLoaded(feed)
    \/ StationsFailed
    \/ \E row \in InputRows : TripRow(row)
    \/ \E v \in SliderValues : TripsLoaded(v)
    \/ \E v \in SliderValues : TripsFailed(v)
    \/ \E v \in SliderValues : updateTimeDisplay(v)

Spec == Init /\ [][Next]_vars

---------------------------------------------------------------------------
(* filterByMinute on its own: the page after a whole day of trips, and     *)
(* direct calls of filterByMinute with any centre minute.                  *)

\* The minute of day t as a timestamp text
StampOf(t) == Stamp(t \div 60, t % 60)

\* A trip starting at every minute of the day, seven minutes long
FullDayRows ==
    [i \in 1..MINUTES_PER_DAY |->
        [ride_id |-> i,
         started_at |-> StampOf(i - 1),
         ended_at |-> StampOf((i + 6) % MINUTES_PER_DAY),
         start_station_id |-> IF i % 2 = 0 THEN "A" ELSE "B",
         end_station_id |-> IF i % 2 = 0 THEN "B" ELSE "A"]]

\* Two trips at every minute from 23:20 to 01:19, half an hour long, and
\* no trip at any other minute
NightRows ==
    [i \in 1..240 |->
        [ride_id |-> i,
         started_at |-> StampOf((1400 + (i - 1) \div 2) % MINUTES_PER_DAY),
         ended_at |-> StampOf((1430 + (i - 1) \div 2) % MINUTES_PER_DAY),
         start_station_id |-> "A",
         end_station_id |-> "B"]]

\* The state the row callback leaves after the rows of a stream in turn: a
\* push appends, so slot t holds, in stream order, the trips whose minute
\* is t.
bucketsAfter(tripObjects, stampField) ==
    [t \in 1..MINUTES_PER_DAY |->
        LET here(trip) ==
                LET minutes == minutesSinceMidnight(trip[stampField])
                IN  isFinite(minutes) /\ minutes.val + 1 = t
        IN  SelectSeq(tripObjects, here)]

tripObjects(rows) == [i \in 1..Len(rows) |-> withDates(rows[i])]

FullDayTrips == tripObjects(FullDayRows)
NightTrips == tripObjects(NightRows)

FullDay ==
    [trips |-> FullDayTrips,
     departures |-> bucketsAfter(FullDayTrips, "started_at"),
     arrivals |-> bucketsAfter(FullDayTrips, "ended_at")]

Night ==
    [trips |-> NightTrips,
     departures |-> bucketsAfter(NightTrips, "started_at"),
     arrivals |-> bucketsAfter(NightTrips, "ended_at")]

Days == {FullDay, Night}

\* The centre minutes of the direct calls: the sentinel, every minute of
\* the day, and values outside the day on both sides
OutOfDay == {-3000, -1500, -1441, -1440, -121, -120, -61, -60, -2,
             1440, 1441, 1500, 2879, 2880, 3000}
QueryMinutes == (-1..(MINUTES_PER_DAY - 1)) \cup OutOfDay

InitFilter ==
    \E built \in Days :
        \E kind \in {"departures", "arrivals"} :
            \E minute \in QueryMinutes :
                /\ pc = "ready"
                /\ stations = <<>>
                /\ parsed = built.trips
                /\ trips = built.trips
                /\ departuresByMinute = built.departures
                /\ arrivalsByMinute = built.arrivals
                /\ timeFilter = -1
                /\ filteredStations = <<>>
                /\ radiusScale = [domain |-> <<0, 0>>, range |-> <<0, 20>>]
                /\ call = [kind |-> kind, minute |-> minute,
                           returned |-> FALSE, result |-> <<>>]

\* filterByMinute(departuresByMinute, minute) or
\* filterByMinute(arrivalsByMinute, minute) runs and returns.
FilterCall ==
    /\ pc = "ready"
    /\ ~call.returned
    /\ call.kind # "none"
    /\ call' = [call EXCEPT
                  !.returned = TRUE,
                  !.result = filterByMinute(IF call.kind = "departures"
                                            THEN departuresByMinute
                                            ELSE arrivalsByMinute,
                                            call.minute)]
    /\ UNCHANGED <<pc, stations, parsed, trips, departuresByMinute,
                   arrivalsByMinute, timeFilter, filteredStations,
                   radiusScale>>

NextFilter == FilterCall

SpecFilter == InitFilter /\ [][NextFilter]_vars

---------------------------------------------------------------------------
(* The flow colour on its own: the page after a file in which one station  *)
(* has any number of departures and of arrivals, and the style callback of *)
(* the circles.                                                            *)

\* A file with d trips leaving A and a trips reaching A
FlowRows(d, a) ==
    [i \in 1..(d + a) |->
        [ride_id |-> i,
         started_at |-> Stamp(11, 40),
         ended_at |-> Stamp(11, 45),
         start_station_id |-> IF i <= d THEN "A" ELSE "X",
         end_station_id |-> IF i <= d THEN "X" ELSE "A"]]

FlowStations ==
    normalizeStations(<<[short_name |-> "A", lat |-> "42", lon |-> "-71"]>>)

\* The page after the load handler ran on such a file, the slider at -1
InitFlow ==
    \E d, a \in 0..MaxCount :
        LET loaded == tripObjects(FlowRows(d, a))
            departures == bucketsAfter(loaded, "started_at")
            arrivals == bucketsAfter(loaded, "ended_at")
            any == computeStationTrafficOn(departures, arrivals,
                                           FlowStations, -1)
        IN  /\ pc = "ready"
            /\ stations = any
            /\ parsed = loaded
            /\ trips = loaded
            /\ departuresByMinute = departures
            /\ arrivalsByMinute = arrivals
            /\ timeFilter = -1
            /\ filteredStations = any
            /\ radiusScale = [domain |-> <<0, maxTotalTraffic(any)>>,
                              range |-> <<0, 20>>]
            /\ call = [kind |-> "stationFlow", minute |-> -1,
                       returned |-> FALSE, result |-> <<>>]

\* .style('--departure-ratio', d => stationFlow(ratio)) over the data bound
\* to the circles
StyleCall ==
    /\ pc = "ready"
    /\ call.kind = "stationFlow"
    /\ ~call.returned
    /\ call' = [call EXCEPT
                  !.returned = TRUE,
                  !.result = [i \in DOMAIN filteredStations |->
                                 stationFlow(departureRatio(
                                     filteredStations[i]))]]
    /\ UNCHANGED <<pc, stations, parsed, trips, departuresByMinute,
                   arrivalsByMinute, timeFilter, filteredStations,
                   radiusScale>>

NextFlow == StyleCall

SpecFlow == InitFlow /\ [][NextFlow]_vars

---------------------------------------------------------------------------
(* The slider over a whole day: the page after a whole day of trips and    *)
(* two stations, and the first slider event, with any centre minute.       *)

DayStations ==
    normalizeStations(<<[short_name |-> "A", lat |-> "42", lon |-> "-71"],
                        [short_name |-> "B", lat |-> "42", lon |-> "-71"]>>)

\* The page after the load handler ran on the file of a day, the slider
\* at -1
InitDay ==
    \E built \in Days :
        LET any == computeStationTrafficOn(built.departures, built.arrivals,
                                           DayStations, -1)
        IN  /\ pc = "ready"
            /\ stations = any
            /\ parsed = built.trips
            /\ trips = built.trips
            /\ departuresByMinute = built.departures
            /\ arrivalsByMinute = built.arrivals
            /\ timeFilter = -1
            /\ filteredStations = any
            /\ radiusScale = [domain |-> <<0, maxTotalTraffic(any)>>,
                              range |-> <<0, 20>>]
            /\ call = NoCall

\* The first input event of the slider, which leaves -1 for a centre minute
FirstSliderEvent(sliderValue) ==
    /\ timeFilter = -1
    /\ updateTimeDisplay(sliderValue)

NextDay == \E v \in 0..(MINUTES_PER_DAY - 1) : FirstSliderEvent(v)

SpecDay == InitDay /\ [][NextDay]_vars

---------------------------------------------------------------------------
(* What the claims are stated with: the window by circular distance, and   *)
(* the trips of the buckets counted slot by slot.                          *)

Range(seq) == {seq[i] : i \in DOMAIN seq}

Minutes == 0..(MINUTES_PER_DAY - 1)

\* Slot t lies in the 120-minute circular window centred on m.
InWindow(t, m) == (t - m + 60) % MINUTES_PER_DAY < 120

\* Slot t is read under filter f: every slot for the sentinel.
InFilter(t, f) == f = -1 \/ InWindow(t, f)

\* The slots lo..hi that hold a trip, found by halving: a run of slots
\* equal to a run of empty slots holds none.
RECURSIVE BusyBetween(_, _, _)
BusyBetween(buckets, lo, hi) ==
    IF SubSeq(buckets, lo + 1, hi + 1) = [i \in 1..(hi - lo + 1) |-> <<>>]
    THEN {}
    ELSE IF lo = hi THEN {lo}
    ELSE BusyBetween(buckets, lo, (lo + hi) \div 2)
            \cup BusyBetween(buckets, (lo + hi) \div 2 + 1, hi)

BusySlots(buckets) == BusyBetween(buckets, 0, MINUTES_PER_DAY - 1)

\* The places <<slot, index>> of the trips held in the buckets
Positions(buckets) ==
    UNION {{<<t, j>> : j \in 1..Len(buckets[t + 1])} : t \in BusySlots(buckets)}

\* The trips a brute-force scan of all slots finds in the window of m
BruteWindow(buckets, m) ==
    UNION {Range(buckets[t + 1]) : t \in {u \in Minutes : InWindow(u, m)}}

\* The number of trips that scan passes
BruteLength(buckets, m) ==
    Cardinality(UNION {{<<t, j>> : j \in 1..Len(buckets[t + 1])} :
                          t \in {u \in Minutes : InWindow(u, m)}})

EveryMinuteBusy(buckets) == \A t \in Minutes : buckets[t + 1] # <<>>

BrutePositions(buckets, f) ==
    {p \in Positions(buckets) : InFilter(p[1], f)}

CalledBuckets ==
    IF call.kind = "departures" THEN departuresByMinute ELSE arrivalsByMinute

\* The slot a returned trip was bucketed in, read off its own timestamp
SlotOf(trip) ==
    LET date == IF call.kind = "departures" THEN trip.started_at
                ELSE trip.ended_at
    IN  date.hours * 60 + date.minutes

SelectedSlots == {SlotOf(call.result[i]) : i \in DOMAIN call.result}

\* Each trip is held once in the buckets called on (trips are distinct
\* objects), so a sequence is the multiset of a set of them when it has the
\* set's elements and the set's size.
IsMultisetOf(seq, set) == Range(seq) = set /\ Len(seq) = Cardinality(set)

\* C1: for every centre minute m in 0..1439 and each index, filterByMinute
\* returns exactly the trips a brute-force circular filter over all 1440
\* slots finds, (t - m + 60) mod 1440 < 120: none outside the window, none
\* of the window missing, each once.
C1_WindowIsBruteForce ==
    (call.returned /\ call.minute \in Minutes) =>
        /\ IsMultisetOf(call.result, BruteWindow(CalledBuckets, call.minute))
        /\ Len(call.result) = BruteLength(CalledBuckets, call.minute)

\* A window across midnight, on the arrivals of the night stream, returned
\* with all its trips.
C1_Witness ==
    /\ call.returned
    /\ call.kind = "arrivals"
    /\ call.minute = 10
    /\ Len(call.result) = 160
    /\ \E i \in DOMAIN call.result : SlotOf(call.result[i]) = 1430
    /\ \E i \in DOMAIN call.result : SlotOf(call.result[i]) = 69

\* C2: with the sentinel -1, filterByMinute returns the full multiset of
\* the index: every trip of every slot once, and nothing else.
C2_AnyReturnsAll ==
    (call.returned /\ call.minute = -1) =>
        /\ IsMultisetOf(call.result,
                        UNION {Range(CalledBuckets[t + 1]) : t \in Minutes})
        /\ Len(call.result)
              = Cardinality(UNION {{<<t, j>> : j \in 1..Len(CalledBuckets[t + 1])} :
                                      t \in Minutes})

C2_Witness ==
    /\ call.returned
    /\ call.minute = -1
    /\ Len(call.result) = MINUTES_PER_DAY
    /\ SelectedSlots = Minutes

\* C3: centre minute 0 selects slots 1380..1439 and 0..59, and selects
\* neither slot 60 nor slot 1379.
C3_MidnightWindow ==
    (call.returned /\ call.minute = 0) =>
        /\ \A t \in (1380..1439) \cup (0..59) :
              Range(CalledBuckets[t + 1]) \subseteq Range(call.result)
        /\ \A t \in {60, 1379} :
              Range(CalledBuckets[t + 1]) \cap Range(call.result) = {}
        /\ SelectedSlots \subseteq (1380..1439) \cup (0..59)

\* Every slot holds a trip, so each slot's selection shows in the result.
C3_Witness ==
    /\ call.returned
    /\ call.minute = 0
    /\ EveryMinuteBusy(CalledBuckets)
    /\ SelectedSlots = (1380..1439) \cup (0..59)

\* C4: for every centre minute m in 0..1439 the window is half open: slot
\* lo = (m - 60 + 1440) mod 1440 is selected, slot hi = (m + 60) mod 1440
\* is not, and exactly 120 distinct slots are selected, wrapped or not.
\* (Stated on a day with a trip in every slot, where each selected slot
\* shows in the result.)
C4_HalfOpen120 ==
    (/\ call.returned
     /\ call.minute \in Minutes
     /\ EveryMinuteBusy(CalledBuckets)) =>
        /\ (call.minute - 60 + MINUTES_PER_DAY) % MINUTES_PER_DAY
              \in SelectedSlots
        /\ (call.minute + 60) % MINUTES_PER_DAY \notin SelectedSlots
        /\ Cardinality(SelectedSlots) = 120

\* The centre 1380, whose window ends at slot 0
C4_Witness ==
    /\ call.returned
    /\ call.minute = 1380
    /\ EveryMinuteBusy(CalledBuckets)
    /\ 1320 \in SelectedSlots
    /\ 1439 \in SelectedSlots
    /\ 0 \notin SelectedSlots

\* C7: a filter value outside 0..1439 other than the sentinel is taken
\* modulo 1440: the call returns the trips of the window centred on
\* ((v mod 1440) + 1440) mod 1440.
C7_OutOfDayNormalized ==
    (call.returned /\ call.minute \notin Minutes /\ call.minute # -1) =>
        IsMultisetOf(call.result,
                     BruteWindow(CalledBuckets,
                                 call.minute % MINUTES_PER_DAY))

---------------------------------------------------------------------------
(* Ingestion and the per-station aggregate, on the page (Spec) *)

\* The trips held anywhere in the buckets
Held(buckets) == UNION {Range(buckets[t + 1]) : t \in BusySlots(buckets)}

\* Both timestamps of the row parsed.
ParsedOK(trip) == trip.started_at.valid /\ trip.ended_at.valid

\* The rows that became trip records: those with both timestamps parsed
IngestedTrips == {parsed[i] : i \in {j \in DOMAIN parsed : ParsedOK(parsed[j])}}

\* C5: after ingestion every ingested trip is in exactly one departure
\* slot, that of its start minute, and in exactly one arrival slot, that of
\* its end minute; the slots of each index, flattened, are the ingested
\* trips, none twice and none lost.
C5_BucketsPartitionTrips ==
    pc = "ready" =>
        /\ Held(departuresByMinute) = IngestedTrips
        /\ Held(arrivalsByMinute) = IngestedTrips
        /\ Cardinality(Positions(departuresByMinute))
              = Cardinality(IngestedTrips)
        /\ Cardinality(Positions(arrivalsByMinute))
              = Cardinality(IngestedTrips)
        /\ \A trip \in IngestedTrips :
              /\ trip \in Range(departuresByMinute[
                     trip.started_at.hours * 60 + trip.started_at.minutes + 1])
              /\ trip \in Range(arrivalsByMinute[
                     trip.ended_at.hours * 60 + trip.ended_at.minutes + 1])

\* C6: a row whose start or end timestamp does not parse is in neither
\* index.
C6_BadRowSkippedEntirely ==
    \A i \in DOMAIN parsed :
        ~ParsedOK(parsed[i]) =>
            /\ parsed[i] \notin Held(departuresByMinute)
            /\ parsed[i] \notin Held(arrivalsByMinute)

\* The trips under filter f, counted slot by slot, whose station is id
BruteCount(buckets, f, key, id) ==
    Cardinality({p \in BrutePositions(buckets, f) :
                    buckets[p[1] + 1][p[2]][key] = id})

CountsAreBruteForce(records, f) ==
    \A i \in DOMAIN records :
        /\ records[i].departures
              = BruteCount(departuresByMinute, f, "start_station_id",
                           records[i].short_name)
        /\ records[i].arrivals
              = BruteCount(arrivalsByMinute, f, "end_station_id",
                           records[i].short_name)
        /\ records[i].totalTraffic
              = records[i].departures + records[i].arrivals

\* C8: for every station of the list and every filter, departures is the
\* number of trips of the departure window that start at the station,
\* arrivals the number of trips of the arrival window that end at it, and
\* totalTraffic their sum; a station in neither count map gets three zeros.
C8_StationCounts ==
    pc = "ready" =>
        /\ CountsAreBruteForce(filteredStations, timeFilter)
        /\ CountsAreBruteForce(stations, -1)

\* Under the window of minute 0 a trip from 00:59 to 01:00 counts as a
\* departure only, and a station without a trip in the window gets zeros.
C8_Witness ==
    /\ pc = "ready"
    /\ timeFilter = 0
    /\ Positions(arrivalsByMinute) # {}
    /\ \E i \in DOMAIN filteredStations :
          /\ filteredStations[i].departures = 1
          /\ filteredStations[i].arrivals = 0
    /\ \E i \in DOMAIN filteredStations : filteredStations[i].totalTraffic = 0

RECURSIVE SumDepartures(_)
SumDepartures(records) ==
    IF Len(records) = 0 THEN 0
    ELSE records[1].departures + SumDepartures(Tail(records))

\* C9 as claimed: for the sentinel filter the departures of all stations
\* of the output sum to the number of indexed trips.
C9_SumIsAllTrips ==
    (pc = "ready" /\ timeFilter = -1) =>
        SumDepartures(filteredStations)
            = Cardinality(Positions(departuresByMinute))

\* C9 as amended: for the sentinel filter the departures of all stations
\* of the output sum to the number of pairs of a listed station and an
\* indexed departure starting at it; a departure from a station not listed
\* is in no station's count.
C9_SumIsListedTrips ==
    (pc = "ready" /\ timeFilter = -1) =>
        /\ SumDepartures(filteredStations)
              = Cardinality({<<i, p>> \in (DOMAIN filteredStations)
                                          \X Positions(departuresByMinute) :
                                departuresByMinute[p[1] + 1][p[2]].start_station_id
                                    = filteredStations[i].short_name})
        /\ (\A p \in Positions(departuresByMinute) :
               Cardinality({i \in DOMAIN filteredStations :
                              filteredStations[i].short_name
                                = departuresByMinute[p[1] + 1][p[2]].start_station_id})
                  = 1)
              => SumDepartures(filteredStations)
                    = Cardinality(Positions(departuresByMinute))

\* Two trips indexed, one from a listed station and one from a station
\* that is not listed
C9_Witness ==
    /\ pc = "ready"
    /\ timeFilter = -1
    /\ Cardinality(Positions(departuresByMinute)) = 2
    /\ Len(filteredStations) = 1
    /\ SumDepartures(filteredStations) = 1

TrafficFields == {"departures", "arrivals", "totalTraffic"}

\* C10: the output of computeStationTraffic is as long as the station list
\* it was given and index-aligned with it: the i-th record carries the
\* i-th station's id and fields.
C10_IndexAligned ==
    pc = "ready" =>
        /\ Len(filteredStations) = Len(stations)
        /\ \A i \in DOMAIN stations :
              /\ DOMAIN filteredStations[i] = DOMAIN stations[i] \cup TrafficFields
              /\ \A k \in DOMAIN stations[i] \ TrafficFields :
                    filteredStations[i][k] = stations[i][k]

C10_Witness ==
    /\ pc = "ready"
    /\ timeFilter = 700
    /\ Len(filteredStations) = 2
    /\ filteredStations[1].short_name = "B"
    /\ filteredStations[2].short_name = "A"
    /\ filteredStations[1].departures = 1
    /\ filteredStations[2].departures = 0

---------------------------------------------------------------------------
(* Recomputation on filter changes *)

\* A station as the feed gave it, without the traffic fields of an earlier
\* computation
Fresh(station) == [k \in DOMAIN station \ TrafficFields |-> station[k]]

Counts(record) ==
    <<record.short_name, record.departures, record.arrivals,
      record.totalTraffic>>

\* C11: queries are history-independent: after any sequence of filter
\* changes the aggregate for the current filter f has, station by station,
\* the departures, arrivals and totalTraffic of the aggregate computed for f
\* from the station list as loaded, although the list passed in carries the
\* traffic fields of the computation at load.
C11_HistoryIndependent ==
    pc = "ready" =>
        LET direct == computeStationTrafficOn(
                          departuresByMinute, arrivalsByMinute,
                          [i \in 1..Len(stations) |-> Fresh(stations[i])],
                          timeFilter)
        IN  /\ Len(filteredStations) = Len(direct)
            /\ \A i \in DOMAIN direct :
                  Counts(filteredStations[i]) = Counts(direct[i])

\* The list passed in carries any-time counts that differ from the counts
\* of the current window.
C11_Witness ==
    /\ pc = "ready"
    /\ timeFilter = 0
    /\ \E i \in DOMAIN stations :
          /\ stations[i].departures = 2
          /\ stations[i].totalTraffic = 2
          /\ filteredStations[i].departures = 1
          /\ filteredStations[i].totalTraffic = 1

---------------------------------------------------------------------------
(* The flow ratio of the circles *)

SameNumber(q, r) == q.num * r.den = r.num * q.den

AtMost(q, r) == q.num * r.den <= r.num * q.den

\* The records the circles are drawn from: the list at load and the
\* aggregate of the last filter change
DrawnRecords == Range(stations) \cup Range(filteredStations)

\* C12: the flow ratio of a drawn record is 0.5 when its totalTraffic is 0;
\* when totalTraffic > 0 it is departures / totalTraffic, lies between 0 and
\* 1, is 0 when departures = 0 and 1 when arrivals = 0.
C12_FlowRatio ==
    pc = "ready" =>
        \A d \in DrawnRecords :
            LET ratio == departureRatio(d)
            IN  /\ ratio.den > 0
                /\ d.totalTraffic = 0 => SameNumber(ratio, Half)
                /\ d.totalTraffic > 0 =>
                      /\ ratio.num * d.totalTraffic = d.departures * ratio.den
                      /\ AtMost(Quotient(0, 1), ratio)
                      /\ AtMost(ratio, Quotient(1, 1))
                      /\ d.departures = 0 => SameNumber(ratio, Quotient(0, 1))
                      /\ d.arrivals = 0 => SameNumber(ratio, Quotient(1, 1))

\* Drawn records with an idle station, a station that only sends and a
\* station that only receives.
C12_Witness ==
    /\ pc = "ready"
    /\ \E d \in Range(filteredStations) : d.totalTraffic = 0
    /\ \E d \in DrawnRecords : d.departures > 0 /\ d.arrivals = 0
    /\ \E d \in DrawnRecords : d.departures = 0 /\ d.arrivals > 0

---------------------------------------------------------------------------
(* Empty inputs *)

AllZero(records) ==
    \A i \in DOMAIN records :
        /\ records[i].departures = 0
        /\ records[i].arrivals = 0
        /\ records[i].totalTraffic = 0

\* C13: empty inputs do not stop the page: when the trip stream was empty or
\* the trip file failed to load, every station has departures = arrivals =
\* totalTraffic = 0, at load and for the current filter, one record per
\* station; when the station list is empty the aggregate is the empty
\* sequence.
C13_EmptyInputs ==
    pc = "ready" =>
        /\ parsed = <<>> =>
              /\ trips = <<>>
              /\ Len(filteredStations) = Len(stations)
              /\ AllZero(stations)
              /\ AllZero(filteredStations)
              /\ radiusScale.domain = <<0, 0>>
        /\ stations = <<>> => filteredStations = <<>>

\* A windowed aggregate over two stations and no trips.
C13_Witness ==
    /\ pc = "ready"
    /\ trips = <<>>
    /\ parsed = <<>>
    /\ timeFilter = 60
    /\ Len(filteredStations) = 2
    /\ AllZero(filteredStations)

---------------------------------------------------------------------------
(* The minutes of the indexed trips *)

IsMinuteOfDay(m) == isFinite(m) /\ m.val \in Minutes

\* The trips held in either index
IndexedTrips == Held(departuresByMinute) \cup Held(arrivalsByMinute)

\* Every push went to one of the 1440 slots, that of the minute computed
\* from the timestamp.
WritesInRange ==
    /\ Len(departuresByMinute) = MINUTES_PER_DAY
    /\ Len(arrivalsByMinute) = MINUTES_PER_DAY
    /\ \A trip \in Held(departuresByMinute) :
          /\ IsMinuteOfDay(minutesSinceMidnight(trip.started_at))
          /\ trip \in Range(departuresByMinute[
                 trip.started_at.hours * 60 + trip.started_at.minutes + 1])
    /\ \A trip \in Held(arrivalsByMinute) :
          /\ IsMinuteOfDay(minutesSinceMidnight(trip.ended_at))
          /\ trip \in Range(arrivalsByMinute[
                 trip.ended_at.hours * 60 + trip.ended_at.minutes + 1])

\* C14: for every indexed trip the start minute and the end minute,
\* hours * 60 + minutes, both lie in 0..1439, and every push of the
\* ingestion went to an existing slot of the 1440-slot arrays.
C14_MinutesInRange ==
    /\ WritesInRange
    /\ \A trip \in IndexedTrips :
          /\ IsMinuteOfDay(minutesSinceMidnight(trip.started_at))
          /\ IsMinuteOfDay(minutesSinceMidnight(trip.ended_at))

---------------------------------------------------------------------------
(* Two trips between two stations *)

Summary(trip) ==
    <<trip.start_station_id, trip.end_station_id,
      trip.started_at.hours * 60 + trip.started_at.minutes,
      trip.ended_at.hours * 60 + trip.ended_at.minutes>>

\* The page with stations [A, B] and the trips A -> B from minute 700 to 705
\* and B -> A from minute 705 to 710
TwoTrips ==
    /\ pc = "ready"
    /\ [i \in DOMAIN stations |-> stations[i].short_name] = <<"A", "B">>
    /\ Len(parsed) = 2
    /\ \A i \in DOMAIN parsed : ParsedOK(parsed[i])
    /\ {Summary(parsed[i]) : i \in DOMAIN parsed}
          = {<<"A", "B", 700, 705>>, <<"B", "A", 705, 710>>}

OneEachWay(records) ==
    /\ Len(records) = 2
    /\ Counts(records[1]) = <<"A", 1, 1, 2>>
    /\ Counts(records[2]) = <<"B", 1, 1, 2>>

\* C15: with the trips A -> B (700 to 705) and B -> A (705 to 710), stations
\* [A, B] and the any-time filter, the aggregate is A: departures 1,
\* arrivals 1, totalTraffic 2 and B: departures 1, arrivals 1,
\* totalTraffic 2.
C15_TwoTripsAnyTime ==
    (TwoTrips /\ timeFilter = -1) =>
        /\ OneEachWay(filteredStations)
        /\ OneEachWay(stations)

C15_Witness ==
    /\ TwoTrips
    /\ timeFilter = -1
    /\ trips = parsed
    /\ OneEachWay(filteredStations)

\* C16: with the same two trips and stations [A, B], the filter 700 gives
\* the per-station result of the any-time filter, and the filter 0, whose
\* window is 1380..1439 with 0..59, gives departures = arrivals =
\* totalTraffic = 0 for both stations.
C16_TwoTripsWindowed ==
    /\ (TwoTrips /\ timeFilter = 700) =>
          /\ OneEachWay(filteredStations)
          /\ \A i \in DOMAIN stations :
                Counts(filteredStations[i]) = Counts(stations[i])
    /\ (TwoTrips /\ timeFilter = 0) =>
          /\ Len(filteredStations) = 2
          /\ AllZero(filteredStations)

C16_Witness ==
    /\ TwoTrips
    /\ timeFilter = 700
    /\ OneEachWay(filteredStations)
    /\ radiusScale.range = <<2, 30>>

---------------------------------------------------------------------------
(* What the queries leave alone *)

\* C17: the buckets are read-only after ingestion: the computation at load
\* and every filter change leave every slot of departuresByMinute and of
\* arrivalsByMinute with the trips it held, and both arrays with 1440
\* slots.
C17_BucketsReadOnly ==
    [][(pc = "ready" \/ pc' = "ready") =>
          /\ departuresByMinute' = departuresByMinute
          /\ arrivalsByMinute' = arrivalsByMinute
          /\ Len(departuresByMinute') = MINUTES_PER_DAY
          /\ Len(arrivalsByMinute') = MINUTES_PER_DAY]_vars

\* A windowed aggregate was computed over buckets that hold trips inside and
\* outside the window.
C17_Witness ==
    /\ pc = "ready"
    /\ timeFilter = 0
    /\ Len(departuresByMinute) = MINUTES_PER_DAY
    /\ departuresByMinute[60] # <<>>
    /\ departuresByMinute[701] # <<>>
    /\ \E i \in DOMAIN filteredStations : filteredStations[i].departures = 1

---------------------------------------------------------------------------
(* Rows with an unparseable timestamp *)

InBothIndices(trip) ==
    /\ trip \in Range(departuresByMinute[
           trip.started_at.hours * 60 + trip.started_at.minutes + 1])
    /\ trip \in Range(arrivalsByMinute[
           trip.ended_at.hours * 60 + trip.ended_at.minutes + 1])

\* C18: a row with an unparseable timestamp does not stop the ingestion:
\* no trip is held under an index that is not a finite minute, every
\* well-formed row that follows a bad row in the stream is held in both
\* indices, and the load resolves with all the rows.
C18_BadRowDoesNotAbort ==
    /\ \A trip \in Held(departuresByMinute) :
          isFinite(minutesSinceMidnight(trip.started_at))
    /\ \A trip \in Held(arrivalsByMinute) :
          isFinite(minutesSinceMidnight(trip.ended_at))
    /\ Len(departuresByMinute) = MINUTES_PER_DAY
    /\ Len(arrivalsByMinute) = MINUTES_PER_DAY
    /\ \A i, j \in DOMAIN parsed :
          (i < j /\ ~ParsedOK(parsed[i]) /\ ParsedOK(parsed[j]))
              => InBothIndices(parsed[j])
    /\ (pc = "ready" /\ parsed # <<>>) => trips = parsed

\* A bad row, then a well-formed row, and the load resolved.
C18_Witness ==
    /\ pc = "ready"
    /\ Len(parsed) = 2
    /\ ~ParsedOK(parsed[1])
    /\ ParsedOK(parsed[2])
    /\ InBothIndices(parsed[2])
    /\ trips = parsed

---------------------------------------------------------------------------
(* The count maps *)

RECURSIVE SumOfCounts(_)
SumOfCounts(map) ==
    IF DOMAIN map = {} THEN 0
    ELSE LET id == CHOOSE k \in DOMAIN map : TRUE
         IN  map[id] + SumOfCounts([k \in DOMAIN map \ {id} |-> map[k]])

\* The raw ids the trips of the window of f carry under the key
RawIds(buckets, f, key) ==
    {buckets[p[1] + 1][p[2]][key] : p \in BrutePositions(buckets, f)}

ListedIds == {stations[i].short_name : i \in DOMAIN stations}

\* C19: the rollup conserves the trips of the window: for the current filter
\* the counts of the departure map sum to the number of trips the departure
\* window query returns, and likewise for arrivals; the keys of each map
\* are the raw station ids of those trips, listed or not, each with the
\* number of its trips.
C19_RollupConserves ==
    pc = "ready" =>
        LET departures == departureCounts(timeFilter)
            arrivals == arrivalCounts(timeFilter)
        IN  /\ SumOfCounts(departures)
                  = Len(filterByMinute(departuresByMinute, timeFilter))
            /\ SumOfCounts(departures)
                  = Cardinality(BrutePositions(departuresByMinute, timeFilter))
            /\ SumOfCounts(arrivals)
                  = Len(filterByMinute(arrivalsByMinute, timeFilter))
            /\ SumOfCounts(arrivals)
                  = Cardinality(BrutePositions(arrivalsByMinute, timeFilter))
            /\ DOMAIN departures
                  = RawIds(departuresByMinute, timeFilter, "start_station_id")
            /\ DOMAIN arrivals
                  = RawIds(arrivalsByMinute, timeFilter, "end_station_id")
            /\ \A id \in DOMAIN departures :
                  departures[id] = BruteCount(departuresByMinute, timeFilter,
                                              "start_station_id", id)
            /\ \A id \in DOMAIN arrivals :
                  arrivals[id] = BruteCount(arrivalsByMinute, timeFilter,
                                            "end_station_id", id)

\* A windowed departure map with a listed and an unlisted station: the
\* unlisted one is counted under its id and has no record in the aggregate.
C19_Witness ==
    /\ pc = "ready"
    /\ timeFilter = 700
    /\ ListedIds = {"A"}
    /\ DOMAIN departureCounts(timeFilter) = {"A", "B"}
    /\ departureCounts(timeFilter)["B"] = 1
    /\ SumOfCounts(departureCounts(timeFilter)) = 2
    /\ \A i \in DOMAIN filteredStations : filteredStations[i].short_name # "B"

---------------------------------------------------------------------------
(* The station baseline *)

\* C20: a filter change does not touch the station baseline: every slider
\* event leaves the module-level list stations and each element's
\* departures, arrivals and totalTraffic as they were, namely the any-time
\* values computed at load; the aggregate is made of new records.
C20_BaselineKept ==
    [][pc = "ready" =>
          /\ stations' = stations
          /\ CountsAreBruteForce(stations', -1)
          /\ Len(filteredStations') = Len(stations')]_vars

\* After a windowed aggregate with no traffic the baseline still carries
\* its any-time counts.
C20_Witness ==
    /\ pc = "ready"
    /\ timeFilter = 60
    /\ filteredStations # <<>>
    /\ AllZero(filteredStations)
    /\ \E i \in DOMAIN stations :
          /\ stations[i].departures = 1
          /\ stations[i].arrivals = 1
          /\ stations[i].totalTraffic = 2

---------------------------------------------------------------------------
(* The last slider event *)

\* The largest totalTraffic of the records, 0 when there are none
LargestTotal(records) ==
    IF records = <<>> THEN 0
    ELSE CHOOSE m \in 0..(2 * MaxTrips) :
            /\ \E i \in DOMAIN records : records[i].totalTraffic = m
            /\ \A i \in DOMAIN records : records[i].totalTraffic <= m

\* C21: the last request wins: a slider event with value v leaves timeFilter
\* equal to v, the rendered aggregate equal to the per-station counts of the
\* filter v, one record per station, and the domain of the size scale equal
\* to [0, largest totalTraffic of that aggregate]; the same holds for the
\* call of updateTimeDisplay at load. Nothing computed for the filter of an
\* earlier event remains.
C21_LastRequestWins ==
    [][\A v \in SliderValues :
          (updateTimeDisplay(v) \/ TripsLoaded(v) \/ TripsFailed(v)) =>
              /\ timeFilter' = v
              /\ Len(filteredStations') = Len(stations')
              /\ \A i \in DOMAIN stations' :
                    filteredStations'[i].short_name = stations'[i].short_name
              /\ CountsAreBruteForce(filteredStations', v)
              /\ radiusScale'.domain = <<0, LargestTotal(filteredStations')>>]_vars

\* The slider at a window without trips, after the aggregate at load
\* counted two trips at a station.
C21_Witness ==
    /\ pc = "ready"
    /\ timeFilter = 0
    /\ AllZero(filteredStations)
    /\ radiusScale.domain = <<0, 0>>
    /\ \E i \in DOMAIN stations : stations[i].totalTraffic = 2

---------------------------------------------------------------------------
(* The size scale *)

\* C22: after every recomputation the domain of the size scale is [0, M],
\* M the largest totalTraffic of the records just computed for the current
\* filter and 0 when there are none, and its range depends on the filter
\* alone: [0, 20] for the any-time filter, [2, 30] for a windowed one.
C22_SizeScale ==
    pc = "ready" =>
        /\ radiusScale.domain = <<0, LargestTotal(filteredStations)>>
        /\ timeFilter = -1 => radiusScale.range = <<0, 20>>
        /\ timeFilter # -1 => radiusScale.range = <<2, 30>>

\* A windowed aggregate whose records differ in totalTraffic: the domain
\* ends at the largest and the range is that of a windowed filter.
C22_Witness ==
    /\ pc = "ready"
    /\ timeFilter = 700
    /\ \E i \in DOMAIN filteredStations : filteredStations[i].totalTraffic = 1
    /\ \E i \in DOMAIN filteredStations : filteredStations[i].totalTraffic = 2
    /\ radiusScale = [domain |-> <<0, 2>>, range |-> <<2, 30>>]

---------------------------------------------------------------------------
(* The flow colour (SpecFlow) *)

\* C23: the flow ratio is quantized into one of the three values 0, 0.5
\* and 1 by thirds of [0, 1]: for totalTraffic > 0 the value is 0 when
\* 3 * departures < totalTraffic, 0.5 when totalTraffic <= 3 * departures
\* < 2 * totalTraffic and 1 when 3 * departures >= 2 * totalTraffic; a
\* station with totalTraffic = 0 gets 0.5.
C23_FlowQuantized ==
    (call.kind = "stationFlow" /\ call.returned) =>
        /\ DOMAIN call.result = DOMAIN filteredStations
        /\ \A i \in DOMAIN filteredStations :
              LET d == filteredStations[i]
                  bucket == call.result[i]
              IN  /\ bucket \in {Quotient(0, 1), Quotient(1, 2),
                                 Quotient(1, 1)}
                  /\ d.totalTraffic = 0 => bucket = Quotient(1, 2)
                  /\ (d.totalTraffic > 0
                      /\ 3 * d.departures < d.totalTraffic)
                        => bucket = Quotient(0, 1)
                  /\ (d.totalTraffic > 0
                      /\ d.totalTraffic <= 3 * d.departures
                      /\ 3 * d.departures < 2 * d.totalTraffic)
                        => bucket = Quotient(1, 2)
                  /\ (d.totalTraffic > 0
                      /\ 3 * d.departures >= 2 * d.totalTraffic)
                        => bucket = Quotient(1, 1)

\* A station with a third of its traffic leaving: on the lower threshold,
\* in the middle bin.
C23_Witness ==
    /\ call.kind = "stationFlow"
    /\ call.returned
    /\ filteredStations[1].departures = 2
    /\ filteredStations[1].totalTraffic = 6
    /\ call.result[1] = Quotient(1, 2)

---------------------------------------------------------------------------
(* The filter argument and the module-level timeFilter *)

\* C24: the result of computeStationTraffic depends on its filter argument,
\* the buckets and the station ids, not on the module-level timeFilter:
\* whatever value timeFilter has, the call for a filter f returns, station
\* by station, the counts of the trips of the buckets that pass f.
C24_ArgumentNotGlobal ==
    pc = "ready" =>
        \A f \in SliderValues :
            LET records == computeStationTraffic(stations, f)
            IN  /\ Len(records) = Len(stations)
                /\ \A i \in DOMAIN stations :
                      records[i].short_name = stations[i].short_name
                /\ CountsAreBruteForce(records, f)

\* The module-level timeFilter is 700, with traffic in its window; the call
\* for the filter 0 returns the counts of the window of 0, which is empty.
C24_Witness ==
    /\ pc = "ready"
    /\ timeFilter = 700
    /\ ~AllZero(filteredStations)
    /\ computeStationTraffic(stations, 0) # <<>>
    /\ AllZero(computeStationTraffic(stations, 0))

---------------------------------------------------------------------------
(* Ingestion before the first query *)

\* Some computeStationTraffic call has left its trace: a station carries
\* traffic fields, or the circles or the scale were updated.
Queried ==
    \/ \E i \in DOMAIN stations : "totalTraffic" \in DOMAIN stations[i]
    \/ filteredStations # <<>>
    \/ radiusScale # NoScale

\* C25: no query sees a partially built store: until the trip file has
\* been ingested or has failed no computeStationTraffic call and no slider
\* event has acted; the first query comes with the end of the ingestion,
\* and no bucket is written once a query has acted.
C25_NoQueryBeforeIngested ==
    [][/\ pc # "ready" => ~Queried
       /\ pc' # "ready" => ~Queried'
       /\ (departuresByMinute' # departuresByMinute
           \/ arrivalsByMinute' # arrivalsByMinute)
             => (pc = "csv" /\ pc' = "csv" /\ ~Queried /\ ~Queried')
       /\ (filteredStations' # filteredStations
           \/ radiusScale' # radiusScale
           \/ timeFilter' # timeFilter
           \/ (stations' # stations /\ pc # "start"))
             => (pc' = "ready" /\ trips' \in {parsed', <<>>})
       /\ Queried => (Queried' /\ parsed' = parsed)]_vars

\* The first query has acted on a store of two ingested trips.
C25_Witness ==
    /\ pc = "ready"
    /\ Queried
    /\ Len(parsed) = 2
    /\ trips = parsed
    /\ Cardinality(Positions(departuresByMinute)) = 2
    /\ Cardinality(Positions(arrivalsByMinute)) = 2
    /\ timeFilter = 60

---------------------------------------------------------------------------
(* The slider over a whole day (SpecDay) *)

MinuteOf(date) == date.hours * 60 + date.minutes

StartsInWindow(trip) == InWindow(MinuteOf(trip.started_at), timeFilter)
EndsInWindow(trip) == InWindow(MinuteOf(trip.ended_at), timeFilter)

\* C26: departures and arrivals are windowed independently: for a windowed
\* filter a station's departures are the trips that start at it with the
\* start minute in the window, wherever the end minute lies, and its
\* arrivals are the trips that end at it with the end minute in the window,
\* wherever the start minute lies; a trip with one minute inside and the
\* other outside is counted on that one side only.
C26_SidesWindowedApart ==
    (pc = "ready" /\ timeFilter # -1) =>
        \A i \in DOMAIN filteredStations :
            LET id == filteredStations[i].short_name
            IN  /\ filteredStations[i].departures
                      = Cardinality({k \in DOMAIN trips :
                            /\ trips[k].start_station_id = id
                            /\ StartsInWindow(trips[k])})
                /\ filteredStations[i].arrivals
                      = Cardinality({k \in DOMAIN trips :
                            /\ trips[k].end_station_id = id
                            /\ EndsInWindow(trips[k])})

\* The night file with the slider at midnight: the trips that start before
\* 01:00 and end after it are counted as departures of A and not as
\* arrivals of B.
C26_Witness ==
    /\ pc = "ready"
    /\ timeFilter = 0
    /\ \E k \in DOMAIN trips :
          StartsInWindow(trips[k]) /\ ~EndsInWindow(trips[k])
    /\ filteredStations[1].short_name = "A"
    /\ filteredStations[1].departures = 200
    /\ filteredStations[2].short_name = "B"
    /\ filteredStations[2].arrivals = 140

\* The centres 60, 180, 300, ..., 1380 of twelve windows
TwelveCentres == {60 + 120 * k : k \in 0..11}

RECURSIVE SumOfField(_, _, _, _)
SumOfField(windows, centres, i, field) ==
    IF centres = {} THEN 0
    ELSE LET c == CHOOSE x \in centres : TRUE
         IN  windows[c][i][field]
               + SumOfField(windows, centres \ {c}, i, field)

\* C27: the twelve windows centred on 60, 180, ..., 1380 partition the day:
\* for every station the departures of the twelve windowed aggregates sum
\* to its departures under the any-time filter, and likewise the arrivals
\* and the totalTraffic.  The aggregate of the slider's own centre is the
\* rendered one, the any-time values are those computed at load.
C27_TwelveWindowsPartition ==
    (pc = "ready" /\ timeFilter \in TwelveCentres \cup {-1}) =>
        LET windows == [c \in TwelveCentres |->
                           IF c = timeFilter THEN filteredStations
                           ELSE computeStationTraffic(stations, c)]
        IN  \A i \in DOMAIN stations :
                \A field \in TrafficFields :
                    SumOfField(windows, TwelveCentres, i, field)
                        = stations[i][field]

\* The whole day with the slider at 03:00: 60 of the 720 departures of a
\* station are in the window.
C27_Witness ==
    /\ pc = "ready"
    /\ timeFilter = 180
    /\ stations[1].departures = 720
    /\ stations[1].totalTraffic = 1440
    /\ filteredStations[1].departures = 60
    /\ filteredStations[1].totalTraffic = 120

\* C28: windowing never adds traffic: for every station and every centre
\* minute 0..1439 the windowed departures, arrivals and totalTraffic are
\* natural numbers and none exceeds the station's value under the any-time
\* filter.
C28_WindowNeverAdds ==
    pc = "ready" =>
        /\ Len(filteredStations) = Len(stations)
        /\ \A i \in DOMAIN stations :
              /\ filteredStations[i].short_name = stations[i].short_name
              /\ \A field \in TrafficFields :
                    /\ filteredStations[i][field] \in Nat
                    /\ stations[i][field] \in Nat
                    /\ filteredStations[i][field] <= stations[i][field]

\* The last centre of the day on the night file: part of a station's
\* departures is in the window, part is not.
C28_Witness ==
    /\ pc = "ready"
    /\ timeFilter = MINUTES_PER_DAY - 1
    /\ filteredStations[1].departures > 0
    /\ filteredStations[1].departures < stations[1].departures
    /\ filteredStations[1].arrivals = 0
    /\ filteredStations[2].arrivals < stations[2].arrivals

=============================================================================
